---- MODULE Spec2Model ----
(***************************************************************************)
(* The consulrange DHCPv4 lease plugin (plugins/consul_range/plugin.go):   *)
(* setupConsulRange loads the persisted leases and re-reserves them in the *)
(* allocator, Handler4 leases or renews one address per hardware address   *)
(* under the plugin's mutex.                                               *)
(*                                                                         *)
(* Time is counted in ticks, TicksPerSec ticks to the second; a Record's   *)
(* Expires is in whole seconds, as in the source.  Addresses are small     *)
(* integers standing for the uint32 value of an IPv4 address.              *)
(***************************************************************************)
EXTENDS Integers, FiniteSets, TLC

\* ---- bounds of the model ------------------------------------------------
NumWorkers == 2      \* goroutines that call Handler4
NumHW == 3           \* hardware addresses that ever send a request
MaxIP == 2           \* addresses are 0..MaxIP; the range never ends above it
MaxTime == 3         \* the clock stops at this tick
MaxFail == 1         \* store writes that fail in one run
MaxLoaded == 2       \* records in the store when the process starts
TicksPerSec == 2     \* resolution of the clock
LoadedExpires == 2   \* Expires (seconds) of the records in the store at the start

Workers == 1..NumWorkers
HW == 1..NumHW
IPs == 0..MaxIP
Hostnames == {"a", "b"}
RangeStart == 1
NoOne == 0
NoHint == -1

\* args[2], args[3], args[4] of setupConsulRange
ArgSets == [start : {RangeStart}, end : RangeStart..MaxIP,
            lease : {TicksPerSec, TicksPerSec + 1}]

\* ---- time ---------------------------------------------------------------
\* time.Time.Unix(): whole seconds, the fraction dropped
Unix(t) == t \div TicksPerSec

\* Round(time.Second) of a Time or a Duration: halfway values round up
RoundSecond(t) == ((2 * t + TicksPerSec) \div (2 * TicksPerSec)) * TicksPerSec

\* ---- records and maps ---------------------------------------------------
Record(ip, expires, hostname) == [IP |-> ip, Expires |-> expires, Hostname |-> hostname]

Put(m, k, v) == [x \in DOMAIN m \cup {k} |-> IF x = k THEN v ELSE m[x]]

EmptyMap == [x \in {} |-> 0]

\* ---- the allocator (allocators.Allocator, bitmap implementation) --------
NilAllocator == [start |-> 1, end |-> 0, used |-> {}]

NewIPv4Allocator(start, end) == [start |-> start, end |-> end, used |-> {}]

Free(a) == (a.start..a.end) \ a.used

\* The outcomes of Allocate(hint): an error, or an address now marked used.
\* Without a hint any free address; with a hint that address when it is free,
\* else an error or some other free address.
Allocate(a, hint) ==
    IF hint # NoHint /\ hint \in Free(a)
    THEN {[err |-> FALSE, ip |-> hint]}
    ELSE {[err |-> FALSE, ip |-> i] : i \in Free(a)}
         \cup (IF hint # NoHint \/ Free(a) = {} THEN {[err |-> TRUE, ip |-> NoHint]} ELSE {})

Reserve(a, ip) == [a EXCEPT !.used = @ \cup {ip}]

\* ---- the durable store (consul KV under the prefix) ---------------------
\* saveIPAddress: the record is written, or the write fails and the store
\* keeps what it had.
saveIPAddress(s, hw, rec, ok) == IF ok THEN Put(s, hw, rec) ELSE s

\* loadRecords: every record under the prefix
loadRecords(s) == s

StoredRecords == [IP : IPs, Expires : {LoadedExpires}, Hostname : {"a"}]

PartialMaps(keys, vals) == UNION {[d -> vals] : d \in SUBSET keys}

InitStores == {s \in PartialMaps(HW, StoredRecords) : Cardinality(DOMAIN s) <= MaxLoaded}

VARIABLES
    args,        \* the arguments setupConsulRange is called with
    phase,       \* "start", "reserve" (loop of line 152), "serving", "failed"
    pending,     \* records the loop of line 152 has not visited yet
    loaded,      \* what loadRecords returned
    store,       \* the durable store: hardware address -> Record
    Recordsv4,   \* PluginState.Recordsv4
    LeaseTime,   \* PluginState.LeaseTime
    allocator,   \* PluginState.allocator
    mutex,       \* PluginState.Mutex: the worker that holds it, or NoOne
    pc,          \* where each worker is in Handler4
    req,         \* the request of each worker: hardware address and hostname
    rec,         \* Handler4's local rec (new record not yet inserted)
    saveErr,     \* Handler4's err from saveIPAddress: "none", "ok", "fail"
    expiry,      \* Handler4's local expiry (line 75), in ticks
    now,         \* the time.Now() of line 64 or 76 the call decided with
    clock,       \* time.Now()
    failures,    \* store writes that failed so far
    offers,      \* responses sent: <<hardware address, YourIPAddr, lease time>>
    refused      \* hardware addresses whose request got no response

vars == <<args, phase, pending, loaded, store, Recordsv4, LeaseTime, allocator,
          mutex, pc, req, rec, saveErr, expiry, now, clock, failures, offers,
          refused>>

setupVars == <<args, phase, pending, loaded, LeaseTime>>
workerVars == <<mutex, pc, req, rec, saveErr, expiry, now>>

NoReq == [hw |-> 0, hostname |-> ""]
NoRec == Record(NoHint, 0, "")
NoTime == -1

Init ==
    /\ args \in ArgSets
    /\ phase = "start"
    /\ pending = {}
    /\ loaded = EmptyMap
    /\ store \in InitStores
    /\ Recordsv4 = EmptyMap
    /\ LeaseTime = 0
    /\ allocator = NilAllocator
    /\ mutex = NoOne
    /\ pc = [w \in Workers |-> "idle"]
    /\ req = [w \in Workers |-> NoReq]
    /\ rec = [w \in Workers |-> NoRec]
    /\ saveErr = [w \in Workers |-> "none"]
    /\ expiry = [w \in Workers |-> NoTime]
    /\ now = [w \in Workers |-> NoTime]
    /\ clock = 0
    /\ failures = 0
    /\ offers = {}
    /\ refused = {}

\* ---- setupConsulRange ---------------------------------------------------
\* SetupLoad that takes nothing from the store: every restart begins with an
\* empty lease table
SetupLoadNothing ==
    /\ phase = "start"
    /\ IF args.start >= args.end
       THEN /\ phase' = "failed"
            /\ UNCHANGED <<pending, loaded, Recordsv4, LeaseTime, allocator>>
       ELSE /\ allocator' = NewIPv4Allocator(args.start, args.end)
            /\ LeaseTime' = args.lease
            /\ Recordsv4' = EmptyMap
            /\ loaded' = EmptyMap
            /\ pending' = {}
            /\ phase' = "reserve"
    /\ UNCHANGED <<args, store, workerVars, clock, failures, offers, refused>>

\* lines 97-150: check the arguments, build the allocator, load the records;
\* an inverted range (line 118) or a failed load (line 146) ends setup
SetupLoad ==
    /\ phase = "start"
    /\ IF args.start >= args.end
       THEN /\ phase' = "failed"
            /\ UNCHANGED <<pending, loaded, Recordsv4, LeaseTime, allocator>>
       ELSE /\ allocator' = NewIPv4Allocator(args.start, args.end)
            /\ LeaseTime' = args.lease
            /\ \E ok \in BOOLEAN :
                  IF ok
                  THEN /\ Recordsv4' = loadRecords(store)
                       /\ loaded' = loadRecords(store)
                       /\ pending' = DOMAIN loadRecords(store)
                       /\ phase' = "reserve"
                  ELSE /\ phase' = "failed"
                       /\ UNCHANGED <<pending, loaded, Recordsv4>>
    /\ UNCHANGED <<args, store, workerVars, clock, failures, offers, refused>>

\* SetupReserve without the comparison of line 157: any address the allocator
\* returns is accepted
SetupReserveNoCompare(hw) ==
    /\ phase = "reserve"
    /\ hw \in pending
    /\ \E r \in Allocate(allocator, Recordsv4[hw].IP) :
          IF r.err
          THEN /\ phase' = "failed"
               /\ pending' = {}
               /\ allocator' = allocator
          ELSE /\ phase' = phase
               /\ pending' = pending \ {hw}
               /\ allocator' = Reserve(allocator, r.ip)
    /\ UNCHANGED <<args, loaded, store, Recordsv4, LeaseTime, workerVars, clock,
                   failures, offers, refused>>

\* SetupReserve without the call of line 153: the address stays free
SetupReserveSkip(hw) ==
    /\ phase = "reserve"
    /\ hw \in pending
    /\ pending' = pending \ {hw}
    /\ UNCHANGED <<args, phase, loaded, store, Recordsv4, LeaseTime, allocator,
                   workerVars, clock, failures, offers, refused>>

\* lines 152-160: one iteration of the loop, in the map's (any) order
SetupReserve(hw) ==
    /\ phase = "reserve"
    /\ hw \in pending
    /\ \E r \in Allocate(allocator, Recordsv4[hw].IP) :
          IF r.err \/ r.ip # Recordsv4[hw].IP
          THEN /\ phase' = "failed"
               /\ pending' = {}
               /\ allocator' = IF r.err THEN allocator ELSE Reserve(allocator, r.ip)
          ELSE /\ phase' = phase
               /\ pending' = pending \ {hw}
               /\ allocator' = Reserve(allocator, r.ip)
    /\ UNCHANGED <<args, loaded, store, Recordsv4, LeaseTime, workerVars, clock,
                   failures, offers, refused>>

\* line 162: the handler is returned
SetupDone ==
    /\ phase = "reserve"
    /\ pending = {}
    /\ phase' = "serving"
    /\ UNCHANGED <<args, pending, loaded, store, Recordsv4, LeaseTime, allocator,
                   workerVars, clock, failures, offers, refused>>

\* ---- Handler4 -----------------------------------------------------------
\* the server hands a request to the handler setup returned
Call(w) ==
    /\ phase = "serving"
    /\ pc[w] = "idle"
    /\ pc' = [pc EXCEPT ![w] = "lock"]
    /\ UNCHANGED <<setupVars, store, Recordsv4, allocator, mutex, req, rec, saveErr,
                   expiry, now, clock, failures, offers, refused>>

\* Lock that does not wait for the mutex
LockNoWait(w, hw, hostname) ==
    /\ pc[w] = "lock"
    /\ mutex' = w
    /\ req' = [req EXCEPT ![w] = [hw |-> hw, hostname |-> hostname]]
    /\ pc' = [pc EXCEPT ![w] = IF hw \in DOMAIN Recordsv4 THEN "check" ELSE "alloc"]
    /\ UNCHANGED <<setupVars, store, Recordsv4, allocator, rec, saveErr, expiry, now,
                   clock, failures, offers, refused>>

\* Lock with ok of line 54 never true: every request is taken for a new client
LockAlwaysNew(w, hw, hostname) ==
    /\ pc[w] = "lock"
    /\ mutex = NoOne
    /\ mutex' = w
    /\ req' = [req EXCEPT ![w] = [hw |-> hw, hostname |-> hostname]]
    /\ pc' = [pc EXCEPT ![w] = "alloc"]
    /\ UNCHANGED <<setupVars, store, Recordsv4, allocator, rec, saveErr, expiry, now,
                   clock, failures, offers, refused>>

\* lines 50-54: p.Lock(), then the request's hardware address and hostname are
\* read, the record looked up, and ok decides the branch
Lock(w, hw, hostname) ==
    /\ pc[w] = "lock"
    /\ mutex = NoOne
    /\ mutex' = w
    /\ req' = [req EXCEPT ![w] = [hw |-> hw, hostname |-> hostname]]
    /\ pc' = [pc EXCEPT ![w] = IF hw \in DOMAIN Recordsv4 THEN "check" ELSE "alloc"]
    /\ UNCHANGED <<setupVars, store, Recordsv4, allocator, rec, saveErr, expiry, now,
                   clock, failures, offers, refused>>

\* AllocateNew without the return of line 60: after an allocation error the
\* handler goes on with a record that has no address
AllocateNewNoReturn(w) ==
    /\ pc[w] = "alloc"
    /\ \E r \in Allocate(allocator, NoHint) :
          /\ allocator' = IF r.err THEN allocator ELSE Reserve(allocator, r.ip)
          /\ rec' = [rec EXCEPT ![w] =
                        Record(r.ip, Unix(clock + LeaseTime), req[w].hostname)]
          /\ now' = [now EXCEPT ![w] = clock]
          /\ pc' = [pc EXCEPT ![w] = "save"]
    /\ UNCHANGED <<setupVars, store, Recordsv4, mutex, req, saveErr, expiry, clock,
                   failures, offers, refused>>

\* AllocateNew whose error return forgets the deferred Unlock of line 51
AllocateNewKeepLock(w) ==
    /\ pc[w] = "alloc"
    /\ \E r \in Allocate(allocator, NoHint) :
          IF r.err
          THEN /\ refused' = refused \cup {req[w].hw}
               /\ pc' = [pc EXCEPT ![w] = "idle"]
               /\ req' = [req EXCEPT ![w] = NoReq]
               /\ UNCHANGED <<allocator, rec, now, mutex>>
          ELSE /\ allocator' = Reserve(allocator, r.ip)
               /\ rec' = [rec EXCEPT ![w] =
                             Record(r.ip, Unix(clock + LeaseTime), req[w].hostname)]
               /\ now' = [now EXCEPT ![w] = clock]
               /\ pc' = [pc EXCEPT ![w] = "save"]
               /\ UNCHANGED <<refused, req, mutex>>
    /\ UNCHANGED <<setupVars, store, Recordsv4, saveErr, expiry, clock, failures,
                   offers>>

\* lines 57-66: allocate; on error return nil, true (and unlock); else build rec
AllocateNew(w) ==
    /\ pc[w] = "alloc"
    /\ \E r \in Allocate(allocator, NoHint) :
          IF r.err
          THEN /\ refused' = refused \cup {req[w].hw}
               /\ mutex' = IF mutex = w THEN NoOne ELSE mutex
               /\ pc' = [pc EXCEPT ![w] = "idle"]
               /\ req' = [req EXCEPT ![w] = NoReq]
               /\ UNCHANGED <<allocator, rec, now>>
          ELSE /\ allocator' = Reserve(allocator, r.ip)
               /\ rec' = [rec EXCEPT ![w] =
                             Record(r.ip, Unix(clock + LeaseTime), req[w].hostname)]
               /\ now' = [now EXCEPT ![w] = clock]
               /\ pc' = [pc EXCEPT ![w] = "save"]
               /\ UNCHANGED <<refused, mutex, req>>
    /\ UNCHANGED <<setupVars, store, Recordsv4, saveErr, expiry, clock, failures, offers>>

\* SaveNew that inserts the record only once it is in the store
SaveNewInsertIfSaved(w) ==
    /\ pc[w] = "save"
    /\ \E ok \in BOOLEAN :
          /\ ok \/ failures < MaxFail
          /\ store' = saveIPAddress(store, req[w].hw, rec[w], ok)
          /\ saveErr' = [saveErr EXCEPT ![w] = IF ok THEN "ok" ELSE "fail"]
          /\ failures' = IF ok THEN failures ELSE failures + 1
          /\ Recordsv4' = IF ok THEN Put(Recordsv4, req[w].hw, rec[w])
                          ELSE Put(Recordsv4, req[w].hw, Record(rec[w].IP, 0, ""))
    /\ rec' = [rec EXCEPT ![w] = NoRec]
    /\ pc' = [pc EXCEPT ![w] = "respond"]
    /\ UNCHANGED <<setupVars, allocator, mutex, req, expiry, now, clock, offers, refused>>

\* SaveNew that saves the record before its hostname is set
SaveNewNoHostname(w) ==
    /\ pc[w] = "save"
    /\ \E ok \in BOOLEAN :
          /\ ok \/ failures < MaxFail
          /\ store' = saveIPAddress(store, req[w].hw,
                                    Record(rec[w].IP, rec[w].Expires, ""), ok)
          /\ saveErr' = [saveErr EXCEPT ![w] = IF ok THEN "ok" ELSE "fail"]
          /\ failures' = IF ok THEN failures ELSE failures + 1
    /\ Recordsv4' = Put(Recordsv4, req[w].hw, rec[w])
    /\ rec' = [rec EXCEPT ![w] = NoRec]
    /\ pc' = [pc EXCEPT ![w] = "respond"]
    /\ UNCHANGED <<setupVars, allocator, mutex, req, expiry, now, clock, offers, refused>>

\* SaveNew that gives up when the write fails: the record is not inserted and
\* the request gets no response
SaveNewDropOnFail(w) ==
    /\ pc[w] = "save"
    /\ \E ok \in BOOLEAN :
          /\ ok \/ failures < MaxFail
          /\ store' = saveIPAddress(store, req[w].hw, rec[w], ok)
          /\ failures' = IF ok THEN failures ELSE failures + 1
          /\ IF ok
             THEN /\ saveErr' = [saveErr EXCEPT ![w] = "ok"]
                  /\ Recordsv4' = Put(Recordsv4, req[w].hw, rec[w])
                  /\ pc' = [pc EXCEPT ![w] = "respond"]
                  /\ UNCHANGED <<mutex, req, now, refused>>
             ELSE /\ refused' = refused \cup {req[w].hw}
                  /\ mutex' = IF mutex = w THEN NoOne ELSE mutex
                  /\ pc' = [pc EXCEPT ![w] = "idle"]
                  /\ req' = [req EXCEPT ![w] = NoReq]
                  /\ now' = [now EXCEPT ![w] = NoTime]
                  /\ UNCHANGED <<Recordsv4, saveErr>>
    /\ rec' = [rec EXCEPT ![w] = NoRec]
    /\ UNCHANGED <<setupVars, allocator, expiry, clock, offers>>

\* lines 67-72: save the new record (an error is only logged), insert it
SaveNew(w) ==
    /\ pc[w] = "save"
    /\ \E ok \in BOOLEAN :
          /\ ok \/ failures < MaxFail
          /\ store' = saveIPAddress(store, req[w].hw, rec[w], ok)
          /\ saveErr' = [saveErr EXCEPT ![w] = IF ok THEN "ok" ELSE "fail"]
          /\ failures' = IF ok THEN failures ELSE failures + 1
    /\ Recordsv4' = Put(Recordsv4, req[w].hw, rec[w])
    /\ rec' = [rec EXCEPT ![w] = NoRec]
    /\ pc' = [pc EXCEPT ![w] = "respond"]
    /\ UNCHANGED <<setupVars, allocator, mutex, req, expiry, now, clock, offers, refused>>

\* CheckExpiry with line 78 moved before the comparison: the hostname is
\* updated in memory on every request
CheckExpiryTouchHostname(w) ==
    /\ pc[w] = "check"
    /\ pc' = [pc EXCEPT ![w] =
                 IF Recordsv4[req[w].hw].Expires * TicksPerSec < clock + LeaseTime
                 THEN "renew" ELSE "respond"]
    /\ Recordsv4' = [Recordsv4 EXCEPT ![req[w].hw].Hostname = req[w].hostname]
    /\ expiry' = [expiry EXCEPT ![w] = Recordsv4[req[w].hw].Expires * TicksPerSec]
    /\ now' = [now EXCEPT ![w] = clock]
    /\ UNCHANGED <<setupVars, store, allocator, mutex, req, rec, saveErr,
                   clock, failures, offers, refused>>

\* CheckExpiry without the comparison of line 76: every request renews
CheckExpiryAlways(w) ==
    /\ pc[w] = "check"
    /\ pc' = [pc EXCEPT ![w] = "renew"]
    /\ expiry' = [expiry EXCEPT ![w] = Recordsv4[req[w].hw].Expires * TicksPerSec]
    /\ now' = [now EXCEPT ![w] = clock]
    /\ UNCHANGED <<setupVars, store, Recordsv4, allocator, mutex, req, rec, saveErr,
                   clock, failures, offers, refused>>

\* CheckExpiry with <= for Before: a lease that ends exactly with the one
\* offered is renewed too
CheckExpiryNotAfter(w) ==
    /\ pc[w] = "check"
    /\ pc' = [pc EXCEPT ![w] =
                 IF Recordsv4[req[w].hw].Expires * TicksPerSec <= clock + LeaseTime
                 THEN "renew" ELSE "respond"]
    /\ expiry' = [expiry EXCEPT ![w] = Recordsv4[req[w].hw].Expires * TicksPerSec]
    /\ now' = [now EXCEPT ![w] = clock]
    /\ UNCHANGED <<setupVars, store, Recordsv4, allocator, mutex, req, rec, saveErr,
                   clock, failures, offers, refused>>

\* lines 75-76: does the lease on file end before the one offered now?
CheckExpiry(w) ==
    /\ pc[w] = "check"
    /\ pc' = [pc EXCEPT ![w] =
                 IF Recordsv4[req[w].hw].Expires * TicksPerSec < clock + LeaseTime
                 THEN "renew" ELSE "respond"]
    /\ expiry' = [expiry EXCEPT ![w] = Recordsv4[req[w].hw].Expires * TicksPerSec]
    /\ now' = [now EXCEPT ![w] = clock]
    /\ UNCHANGED <<setupVars, store, Recordsv4, allocator, mutex, req, rec, saveErr,
                   clock, failures, offers, refused>>

\* Renew that advances the record only once it is in the store
RenewIfSaved(w) ==
    /\ pc[w] = "renew"
    /\ LET r == Record(Recordsv4[req[w].hw].IP,
                       Unix(RoundSecond(clock + LeaseTime)),
                       req[w].hostname)
       IN \E ok \in BOOLEAN :
             /\ ok \/ failures < MaxFail
             /\ store' = saveIPAddress(store, req[w].hw, r, ok)
             /\ Recordsv4' = IF ok THEN Put(Recordsv4, req[w].hw, r) ELSE Recordsv4
             /\ saveErr' = [saveErr EXCEPT ![w] = IF ok THEN "ok" ELSE "fail"]
             /\ failures' = IF ok THEN failures ELSE failures + 1
    /\ pc' = [pc EXCEPT ![w] = "respond"]
    /\ UNCHANGED <<setupVars, allocator, mutex, req, rec, expiry, now, clock, offers,
                   refused>>

\* Renew without line 78: the hostname is left as it was
RenewKeepHostname(w) ==
    /\ pc[w] = "renew"
    /\ LET r == Record(Recordsv4[req[w].hw].IP,
                       Unix(RoundSecond(clock + LeaseTime)),
                       Recordsv4[req[w].hw].Hostname)
       IN /\ Recordsv4' = Put(Recordsv4, req[w].hw, r)
          /\ \E ok \in BOOLEAN :
                /\ ok \/ failures < MaxFail
                /\ store' = saveIPAddress(store, req[w].hw, r, ok)
                /\ saveErr' = [saveErr EXCEPT ![w] = IF ok THEN "ok" ELSE "fail"]
                /\ failures' = IF ok THEN failures ELSE failures + 1
    /\ pc' = [pc EXCEPT ![w] = "respond"]
    /\ UNCHANGED <<setupVars, allocator, mutex, req, rec, expiry, now, clock, offers,
                   refused>>

\* Renew that builds the record anew and forgets its address
RenewDropIP(w) ==
    /\ pc[w] = "renew"
    /\ LET r == Record(NoHint, Unix(RoundSecond(clock + LeaseTime)), req[w].hostname)
       IN /\ Recordsv4' = Put(Recordsv4, req[w].hw, r)
          /\ \E ok \in BOOLEAN :
                /\ ok \/ failures < MaxFail
                /\ store' = saveIPAddress(store, req[w].hw, r, ok)
                /\ saveErr' = [saveErr EXCEPT ![w] = IF ok THEN "ok" ELSE "fail"]
                /\ failures' = IF ok THEN failures ELSE failures + 1
    /\ pc' = [pc EXCEPT ![w] = "respond"]
    /\ UNCHANGED <<setupVars, allocator, mutex, req, rec, expiry, now, clock, offers,
                   refused>>

\* Renew with lines 78 and 79 swapped: the record is saved before its hostname
\* is updated
RenewSaveStale(w) ==
    /\ pc[w] = "renew"
    /\ LET old == Recordsv4[req[w].hw]
           e == Unix(RoundSecond(clock + LeaseTime))
       IN /\ Recordsv4' = Put(Recordsv4, req[w].hw, Record(old.IP, e, req[w].hostname))
          /\ \E ok \in BOOLEAN :
                /\ ok \/ failures < MaxFail
                /\ store' = saveIPAddress(store, req[w].hw,
                                          Record(old.IP, e, old.Hostname), ok)
                /\ saveErr' = [saveErr EXCEPT ![w] = IF ok THEN "ok" ELSE "fail"]
                /\ failures' = IF ok THEN failures ELSE failures + 1
    /\ pc' = [pc EXCEPT ![w] = "respond"]
    /\ UNCHANGED <<setupVars, allocator, mutex, req, rec, expiry, now, clock, offers,
                   refused>>

\* lines 77-82: advance the record in place, save it (an error is only logged)
Renew(w) ==
    /\ pc[w] = "renew"
    /\ LET r == Record(Recordsv4[req[w].hw].IP,
                       Unix(RoundSecond(clock + LeaseTime)),
                       req[w].hostname)
       IN /\ Recordsv4' = Put(Recordsv4, req[w].hw, r)
          /\ \E ok \in BOOLEAN :
                /\ ok \/ failures < MaxFail
                /\ store' = saveIPAddress(store, req[w].hw, r, ok)
                /\ saveErr' = [saveErr EXCEPT ![w] = IF ok THEN "ok" ELSE "fail"]
                /\ failures' = IF ok THEN failures ELSE failures + 1
    /\ pc' = [pc EXCEPT ![w] = "respond"]
    /\ UNCHANGED <<setupVars, allocator, mutex, req, rec, expiry, now, clock, offers,
                   refused>>

\* Respond with the lease time cut to whole seconds instead of rounded
RespondTruncated(w) ==
    /\ pc[w] = "respond"
    /\ offers' = offers \cup {<<req[w].hw, Recordsv4[req[w].hw].IP,
                                Unix(LeaseTime) * TicksPerSec>>}
    /\ mutex' = IF mutex = w THEN NoOne ELSE mutex
    /\ pc' = [pc EXCEPT ![w] = "idle"]
    /\ req' = [req EXCEPT ![w] = NoReq]
    /\ saveErr' = [saveErr EXCEPT ![w] = "none"]
    /\ expiry' = [expiry EXCEPT ![w] = NoTime]
    /\ now' = [now EXCEPT ![w] = NoTime]
    /\ UNCHANGED <<setupVars, store, Recordsv4, allocator, rec, clock, failures, refused>>

\* lines 85-88 and the deferred Unlock: the response carries the record's
\* address and the lease time rounded to the second
Respond(w) ==
    /\ pc[w] = "respond"
    /\ offers' = offers \cup {<<req[w].hw, Recordsv4[req[w].hw].IP, RoundSecond(LeaseTime)>>}
    /\ mutex' = IF mutex = w THEN NoOne ELSE mutex
    /\ pc' = [pc EXCEPT ![w] = "idle"]
    /\ req' = [req EXCEPT ![w] = NoReq]
    /\ saveErr' = [saveErr EXCEPT ![w] = "none"]
    /\ expiry' = [expiry EXCEPT ![w] = NoTime]
    /\ now' = [now EXCEPT ![w] = NoTime]
    /\ UNCHANGED <<setupVars, store, Recordsv4, allocator, rec, clock, failures, refused>>

\* time passes
Tick ==
    /\ clock < MaxTime
    /\ clock' = clock + 1
    /\ UNCHANGED <<setupVars, store, Recordsv4, allocator, workerVars, failures,
                   offers, refused>>

Next ==
    \/ SetupLoad
    \/ \E hw \in HW : SetupReserve(hw)
    \/ SetupDone
    \/ \E w \in Workers : Call(w)
    \/ \E w \in Workers, hw \in HW, hostname \in Hostnames : Lock(w, hw, hostname)
    \/ \E w \in Workers : AllocateNew(w)
    \/ \E w \in Workers : SaveNew(w)
    \/ \E w \in Workers : CheckExpiry(w)
    \/ \E w \in Workers : Renew(w)
    \/ \E w \in Workers : Respond(w)
    \/ Tick

Spec == Init /\ [][Next]_vars

\* ---- properties --------------------------------------------------------
TypeOK ==
    /\ phase \in {"start", "reserve", "serving", "failed"}
    /\ pending \subseteq HW
    /\ DOMAIN store \subseteq HW
    /\ DOMAIN Recordsv4 \subseteq HW
    /\ mutex \in Workers \cup {NoOne}
    /\ pc \in [Workers -> {"idle", "lock", "alloc", "save", "check", "renew", "respond"}]
    /\ clock \in 0..MaxTime
    /\ failures \in 0..MaxFail
    /\ refused \subseteq HW

Injective(m) == \A h1, h2 \in DOMAIN m : h1 # h2 => m[h1].IP # m[h2].IP

\* C1: once setup has succeeded, no two hardware addresses of the lease table
\* hold the same IP address, and no two responses to different hardware
\* addresses carry the same IP address.
C1_Injectivity ==
    phase = "serving" =>
        /\ Injective(Recordsv4)
        /\ \A o1, o2 \in offers : o1[1] # o2[1] => o1[2] # o2[2]

\* two clients have been answered, one of them loaded at startup
C1_Witness ==
    /\ phase = "serving"
    /\ \E o1, o2 \in offers : o1[1] # o2[1] /\ o1[1] \in DOMAIN loaded /\ o2[1] \notin DOMAIN loaded

\* C2: in one run a record keeps the address it was created with, and all the
\* responses to one hardware address carry the same address.
C2_Stability ==
    /\ [][phase = "serving" =>
            \A h \in DOMAIN Recordsv4 :
                h \in DOMAIN Recordsv4' /\ Recordsv4'[h].IP = Recordsv4[h].IP]_vars
    /\ [](\A o \in offers :
            o[1] \in DOMAIN Recordsv4 /\ Recordsv4[o[1]].IP = o[2])

\* a client answered before is being answered again after a renewal, with
\* another client answered in between
C2_Witness ==
    \E w \in Workers :
        /\ pc[w] = "respond"
        /\ saveErr[w] # "none"
        /\ \E o \in offers : o[1] = req[w].hw
        /\ \E o \in offers : o[1] # req[w].hw

\* C3 (as amended): for a request whose record exists with expiry E, read at
\* time t, a write to the store is issued if and only if E < t + D; when that
\* write succeeds the stored expires is the record's new value, t' + D rounded
\* to the second for the time t' >= t of line 77; when E >= t + D, or the write
\* fails, the call leaves the store as it was.
C3_RenewalThreshold ==
    /\ [](\A w \in Workers :
            expiry[w] # NoTime =>
                LET h == req[w].hw IN
                /\ pc[w] = "renew" => expiry[w] < now[w] + LeaseTime
                /\ pc[w] = "respond" =>
                      /\ saveErr[w] # "none" <=> expiry[w] < now[w] + LeaseTime
                      /\ saveErr[w] = "ok" =>
                            /\ h \in DOMAIN store
                            /\ store[h].Expires = Recordsv4[h].Expires
                            /\ \E t \in now[w]..clock :
                                  store[h].Expires * TicksPerSec = RoundSecond(t + LeaseTime))
    /\ [][\A w \in Workers :
            /\ pc[w] \in {"check", "renew", "respond"}
            /\ pc'[w] # pc[w]
            /\ saveErr'[w] # "ok"
            => store' = store]_vars

\* C3 as stated: the stored expires has become the new value whenever
\* E < t + D, and only then
C3_Original ==
    \A w \in Workers :
        pc[w] = "respond" /\ expiry[w] # NoTime =>
            ((expiry[w] < now[w] + LeaseTime) <=>
                /\ saveErr[w] # "none"
                /\ req[w].hw \in DOMAIN store
                /\ store[req[w].hw].Expires = Recordsv4[req[w].hw].Expires)

\* a renewal whose write succeeded is about to be answered, the stored expires
\* now later than the one found
C3_Witness ==
    \E w \in Workers :
        /\ pc[w] = "respond"
        /\ expiry[w] # NoTime
        /\ saveErr[w] = "ok"
        /\ store[req[w].hw].Expires * TicksPerSec > expiry[w]

\* C4 (as amended): every response carries the configured lease duration
\* rounded to the nearest whole second, halfway up; it is the configured
\* duration itself when that is a whole number of seconds.
C4_LeaseRounded ==
    \A o \in offers :
        /\ o[3] % TicksPerSec = 0
        /\ 2 * (o[3] - args.lease) <= TicksPerSec
        /\ 2 * (args.lease - o[3]) < TicksPerSec
        /\ args.lease % TicksPerSec = 0 => o[3] = args.lease

\* C4 as stated: the lease time of every response is the configured duration
C4_Original == \A o \in offers : o[3] = args.lease

\* a response was sent under a duration that is no whole number of seconds
C4_Witness == \E o \in offers : args.lease % TicksPerSec # 0

\* C5: no step lowers the expires of a record, in the store or in memory, and
\* no step removes a record.
C5_RenewalMonotone ==
    [][/\ \A h \in DOMAIN store :
             h \in DOMAIN store' /\ store'[h].Expires >= store[h].Expires
       /\ \A h \in DOMAIN Recordsv4 :
             h \in DOMAIN Recordsv4' /\ Recordsv4'[h].Expires >= Recordsv4[h].Expires]_vars

\* a record loaded at startup has been renewed in the store
C5_Witness == \E h \in DOMAIN loaded : h \in DOMAIN store /\ store[h].Expires > loaded[h].Expires

RangeSize == args.end - args.start + 1

\* C6: from an empty store and a range of K addresses, a request of a new
\* hardware address is given an address as long as fewer than K hold one, and
\* is refused exactly when K others hold the K addresses.
C6_Exhaustion ==
    phase = "serving" /\ loaded = EmptyMap =>
        /\ \A h \in refused :
              h \notin DOMAIN Recordsv4 /\ Cardinality(DOMAIN Recordsv4) = RangeSize
        /\ \A w \in Workers :
              pc[w] = "alloc" =>
                  (Free(allocator) = {} <=> Cardinality(DOMAIN Recordsv4) = RangeSize)
        /\ Cardinality(DOMAIN Recordsv4) <= RangeSize

\* K clients were answered and one more was refused, the store empty at start
C6_Witness ==
    /\ loaded = EmptyMap
    /\ Cardinality({o[1] : o \in offers}) = RangeSize
    /\ refused # {}

\* C7: a request for which the allocator has no address ends without a
\* response, the lease table, the allocator and the store as they were and no
\* write issued.
C7_AllocationFailure ==
    [][\A w \in Workers :
          pc[w] = "alloc" /\ Free(allocator) = {} /\ pc'[w] # "alloc" =>
              /\ pc'[w] = "idle"
              /\ req[w].hw \in refused'
              /\ offers' = offers
              /\ saveErr[w] = "none" /\ saveErr'[w] = "none"
              /\ UNCHANGED <<Recordsv4, allocator, store>>]_vars

\* a refused client has no record, in memory or in the store, while the pool
\* is used up
C7_Witness ==
    \E h \in refused :
        /\ h \notin DOMAIN Recordsv4
        /\ h \notin DOMAIN store
        /\ Free(allocator) = {}

\* C8: every response to a hardware address loaded at startup carries the
\* address persisted for it, and no request of such a hardware address
\* reaches the allocator.
C8_RecoveryIdempotence ==
    /\ \A o \in offers : o[1] \in DOMAIN loaded => o[2] = loaded[o[1]].IP
    /\ \A w \in Workers : pc[w] \in {"alloc", "save"} => req[w].hw \notin DOMAIN loaded
    /\ phase = "serving" => allocator.used \ {r.IP : r \in {Recordsv4[h] : h \in DOMAIN Recordsv4}}
                              \subseteq {rec[w].IP : w \in Workers}

\* every one of the N = MaxLoaded loaded hardware addresses has been answered
C8_Witness ==
    /\ Cardinality(DOMAIN loaded) = MaxLoaded
    /\ \A h \in DOMAIN loaded : \E o \in offers : o[1] = h

LoadedConsistent ==
    /\ Injective(loaded)
    /\ \A h \in DOMAIN loaded : loaded[h].IP \in args.start..args.end

\* C9: a request is handled only once setup has returned the handler, which it
\* does only after every loaded address has been reserved exactly; setup that
\* failed stays failed and setup that succeeded does not run again.
C9_ServeAfterRecovery ==
    /\ []((\E w \in Workers : pc[w] # "idle") \/ offers # {} \/ refused # {}
             => phase = "serving")
    /\ [](phase = "serving" =>
             /\ pending = {}
             /\ LoadedConsistent
             /\ \A h \in DOMAIN loaded : loaded[h].IP \in allocator.used)
    /\ [][(phase \in {"serving", "failed"}) => (phase' = phase)]_vars

\* setup has failed on two persisted records that share an address
C9_Witness ==
    /\ phase = "failed"
    /\ \E h1, h2 \in DOMAIN loaded :
          h1 # h2 /\ loaded[h1].IP = loaded[h2].IP /\ loaded[h1].IP \in args.start..args.end

\* C10 (as amended): when a call that created or renewed a record returns and
\* its write to the store succeeded, the store's record of the hardware
\* address equals the one in memory.
C10_DurableWhenSaved ==
    \A w \in Workers :
        pc[w] = "respond" /\ saveErr[w] = "ok" =>
            /\ req[w].hw \in DOMAIN store
            /\ store[req[w].hw] = Recordsv4[req[w].hw]

\* C10 as stated: when a call that created or renewed a record returns, the
\* store's record equals the one in memory
C10_Original ==
    \A w \in Workers :
        pc[w] = "respond" /\ saveErr[w] # "none" =>
            /\ req[w].hw \in DOMAIN store
            /\ store[req[w].hw] = Recordsv4[req[w].hw]

\* a renewal that changed the hostname is about to return, saved
C10_Witness ==
    \E w \in Workers :
        /\ pc[w] = "respond"
        /\ saveErr[w] = "ok"
        /\ expiry[w] # NoTime
        /\ req[w].hw \in DOMAIN loaded
        /\ Recordsv4[req[w].hw].Hostname # loaded[req[w].hw].Hostname

\* C12: when the write to the store fails, on the new-record path and on the
\* renewal path alike, the call still answers with the record's address and
\* the lease time, and memory holds the record the call built: the request's
\* hostname, an allocated address, the expiry of line 64 or line 77.
C12_PersistFailureNonFatal ==
    /\ [](\A w \in Workers :
            pc[w] = "respond" /\ saveErr[w] = "fail" =>
                LET h == req[w].hw IN
                /\ h \in DOMAIN Recordsv4
                /\ Recordsv4[h].Hostname = req[w].hostname
                /\ Recordsv4[h].IP \in allocator.used
                /\ expiry[w] = NoTime => Recordsv4[h].Expires = Unix(now[w] + LeaseTime)
                /\ expiry[w] # NoTime =>
                      \E t \in now[w]..clock :
                          Recordsv4[h].Expires * TicksPerSec = RoundSecond(t + LeaseTime))
    /\ [][\A w \in Workers :
            pc[w] = "respond" /\ saveErr[w] = "fail" /\ pc'[w] # "respond" =>
                <<req[w].hw, Recordsv4[req[w].hw].IP, RoundSecond(LeaseTime)>> \in offers']_vars

\* a client has been answered whose record never reached the store
C12_Witness ==
    \E o \in offers : o[1] \notin DOMAIN store /\ o[1] \in DOMAIN Recordsv4

InCS(w) == pc[w] \in {"alloc", "save", "check", "renew", "respond"}

\* C13: at most one worker is between p.Lock() and the deferred Unlock, and it
\* is the one that holds the mutex.
C13_MutualExclusion ==
    /\ \A w1, w2 \in Workers : InCS(w1) /\ InCS(w2) => w1 = w2
    /\ \A w \in Workers : InCS(w) <=> mutex = w

\* one worker saves a new record while another waits for the mutex
C13_Witness ==
    \E w1, w2 \in Workers : pc[w1] = "save" /\ pc[w2] = "lock"

\* C14: while no call is in progress after a successful setup, the address of
\* every record of the lease table is marked allocated in the allocator.
C14_RecordsAllocated ==
    phase = "serving" /\ (\A w \in Workers : ~InCS(w)) =>
        \A h \in DOMAIN Recordsv4 : Recordsv4[h].IP \in allocator.used

\* no call in progress, the table holding a loaded record and a new one
C14_Witness ==
    /\ phase = "serving"
    /\ \A w \in Workers : ~InCS(w)
    /\ DOMAIN loaded # {}
    /\ DOMAIN Recordsv4 \ DOMAIN loaded # {}

\* C15: the steps of a call that finds a record and does not renew it leave
\* the lease table, the allocator and the store as they were and issue no
\* write.
C15_NoRenewalFrame ==
    [][\A w \in Workers :
          \/ pc[w] = "lock" /\ pc'[w] = "check"
          \/ pc[w] = "check" /\ pc'[w] = "respond"
          \/ pc[w] = "respond" /\ expiry[w] # NoTime /\ saveErr[w] = "none" /\ pc'[w] = "idle"
          => /\ UNCHANGED <<Recordsv4, allocator, store, failures>>
             /\ saveErr'[w] = "none"]_vars

\* a call that did not renew is about to return, its hostname not the one on
\* record
C15_Witness ==
    \E w \in Workers :
        /\ pc[w] = "respond"
        /\ expiry[w] # NoTime
        /\ saveErr[w] = "none"
        /\ Recordsv4[req[w].hw].Hostname # req[w].hostname

\* C16 (as amended): when a call that created or renewed the record returns,
\* the record's hostname is the one of that call.
C16_HostnameWhenWritten ==
    \A w \in Workers :
        pc[w] = "respond" /\ saveErr[w] # "none" =>
            Recordsv4[req[w].hw].Hostname = req[w].hostname

\* C16 as stated: when a call returns, the record's hostname is the one of
\* that call
C16_Original ==
    \A w \in Workers :
        pc[w] = "respond" => Recordsv4[req[w].hw].Hostname = req[w].hostname

\* a client answered before is renewed under another hostname
C16_Witness ==
    \E w \in Workers :
        /\ pc[w] = "respond"
        /\ saveErr[w] # "none"
        /\ expiry[w] # NoTime
        /\ Recordsv4[req[w].hw].Hostname = "b"
        /\ \E o \in offers : o[1] = req[w].hw

\* C17 as stated: when a call returns, the record's expiry is not earlier than
\* the end of the lease offered, the time the call read plus the lease time of
\* the response
C17_Original ==
    \A w \in Workers :
        pc[w] = "respond" =>
            Recordsv4[req[w].hw].Expires * TicksPerSec >= now[w] + RoundSecond(LeaseTime)

\* C19: while no write to the store has failed and no call is in progress
\* after a successful setup, the store and the lease table hold the same
\* records.
C19_StoreEqualsTable ==
    failures = 0 /\ phase = "serving" /\ (\A w \in Workers : ~InCS(w)) =>
        store = Recordsv4

\* no call in progress and no write failed, a loaded record renewed under
\* another hostname and a new record created
C19_Witness ==
    /\ failures = 0
    /\ phase = "serving"
    /\ \A w \in Workers : ~InCS(w)
    /\ \E h \in DOMAIN loaded : store[h].Hostname # loaded[h].Hostname
    /\ DOMAIN store \ DOMAIN loaded # {}

\* ---- termination --------------------------------------------------------
\* lines 57-88: one step of a call that holds the mutex
Step(w) ==
    AllocateNew(w) \/ SaveNew(w) \/ CheckExpiry(w) \/ Renew(w) \/ Respond(w)

\* The handler's own steps go on (the store call always returns) and the
\* mutex is acquired fairly: a waiting call that could lock again and again
\* gets the lock.
Fairness ==
    \A w \in Workers :
        /\ WF_vars(Step(w))
        /\ SF_vars(\E hw \in HW, hostname \in Hostnames : Lock(w, hw, hostname))

\* the initial states of the larger specifications: the full range, a lease
\* time that is not a whole number of seconds, at most one stored record, and
\* a process started when the clock reads MaxTime - 1
NarrowInit ==
    /\ args \in ArgSets
    /\ args.end = MaxIP
    /\ args.lease = TicksPerSec + 1
    /\ phase = "start"
    /\ pending = {}
    /\ loaded = EmptyMap
    /\ store \in InitStores
    /\ Cardinality(DOMAIN store) <= 1
    /\ Recordsv4 = EmptyMap
    /\ LeaseTime = 0
    /\ allocator = NilAllocator
    /\ mutex = NoOne
    /\ pc = [w \in Workers |-> "idle"]
    /\ req = [w \in Workers |-> NoReq]
    /\ rec = [w \in Workers |-> NoRec]
    /\ saveErr = [w \in Workers |-> "none"]
    /\ expiry = [w \in Workers |-> NoTime]
    /\ now = [w \in Workers |-> NoTime]
    /\ clock = MaxTime - 1
    /\ failures = 0
    /\ offers = {}
    /\ refused = {}

FairSpec == NarrowInit /\ [][Next]_vars /\ Fairness

\* C18: every call that holds the mutex releases it, whichever path it takes;
\* the holder can always take a step (no deadlock); and, with fair locking and
\* a store call that returns, every waiting call completes.
C18_EventuallyReleased ==
    /\ \A w \in Workers : (mutex = w) ~> (mutex # w)
    /\ \A w \in Workers : (pc[w] = "lock") ~> (pc[w] = "idle")
    /\ [](\A w \in Workers : (mutex = w) => (InCS(w) /\ ENABLED Step(w)))
    /\ [](mutex = NoOne => \A w \in Workers : ~InCS(w))

\* a call waits for the mutex while another call, whose write failed, holds it
C18_Witness ==
    \E w, v \in Workers :
        /\ w # v
        /\ pc[w] = "lock"
        /\ mutex = v
        /\ pc[v] = "respond"
        /\ saveErr[v] = "fail"

\* ---- crash and restart --------------------------------------------------
\* The process ends at any point and is started again with the same
\* arguments: setupConsulRange runs anew on a zero PluginState (line 94);
\* only the store (and the responses already sent) outlive the process.
Crash ==
    /\ phase # "start"
    /\ phase' = "start"
    /\ pending' = {}
    /\ loaded' = EmptyMap
    /\ Recordsv4' = EmptyMap
    /\ LeaseTime' = 0
    /\ allocator' = NilAllocator
    /\ mutex' = NoOne
    /\ pc' = [w \in Workers |-> "idle"]
    /\ req' = [w \in Workers |-> NoReq]
    /\ rec' = [w \in Workers |-> NoRec]
    /\ saveErr' = [w \in Workers |-> "none"]
    /\ expiry' = [w \in Workers |-> NoTime]
    /\ now' = [w \in Workers |-> NoTime]
    /\ UNCHANGED <<args, store, clock, failures, offers, refused>>

NextCrash == Next \/ Crash

\* an empty store and a fixed range
InitEmpty ==
    /\ NarrowInit
    /\ store = EmptyMap

SpecCrash == InitEmpty /\ [][NextCrash]_vars

\* C11 as stated: over all responses ever sent, across write failures, crashes
\* and restarts, a hardware address always gets the same IP address and an IP
\* address always goes to the same hardware address.
C11_Original ==
    \A o1, o2 \in offers : (o1[1] = o2[1]) <=> (o1[2] = o2[2])

\* C11: across Lease calls, write failures, crashes and restarts, a lease whose
\* record is in the store is never lost: the record stays in the store with
\* its IP address, every later response to its hardware address carries that
\* IP address, and no response to another hardware address carries it; and
\* as long as no store write has failed, C11 holds as stated.
C11_DurableLeasesKept ==
    /\ [][\A hw \in DOMAIN store :
             hw \in DOMAIN store' /\ store'[hw].IP = store[hw].IP]_vars
    /\ [][\A o \in offers' \ offers : \A h \in DOMAIN store :
             (o[1] = h) <=> (o[2] = store[h].IP)]_vars
    /\ [](failures = 0 =>
             \A o1, o2 \in offers : (o1[1] = o2[1]) <=> (o1[2] = o2[2]))

\* after a restart that loaded its record, a hardware address that had been
\* answered before is about to be answered again
C11_Witness ==
    \E w \in Workers :
        /\ pc[w] = "respond"
        /\ req[w].hw \in DOMAIN loaded
        /\ req[w].hw \in DOMAIN store
        /\ <<req[w].hw, store[req[w].hw].IP, RoundSecond(LeaseTime)>> \in offers
        /\ failures > 0

\* C20: from an empty store and a fixed range, across Lease calls, write
\* failures, crashes and restarts, the store never holds one IP address for two
\* hardware addresses nor an IP address outside the range, and the reservation
\* loop of setup never fails.
C20_StoreConsistent ==
    /\ [](Injective(store)
          /\ \A h \in DOMAIN store : store[h].IP \in args.start..args.end)
    /\ [][(phase = "reserve") => (phase' # "failed")]_vars

\* a restart, after a write had failed, has recovered a full range of records
C20_Witness ==
    /\ phase = "serving"
    /\ Cardinality(DOMAIN loaded) = RangeSize
    /\ loaded = store
    /\ failures > 0

====
